---- MODULE Spec2Model ----
(***************************************************************************)
(* Model of the users/roles/groups CRUD microservice (FastAPI + Peewee on  *)
(* MySQL).  The state is the four tables roles, users, groups and          *)
(* user_groups, their AUTO_INCREMENT counters, the DDL variant that        *)
(* created the tables, and the last service call with its outcome; the     *)
(* update requests that have fetched their row and not yet saved it; and   *)
(* the application's lifespan with the database handles that are open.     *)
(*                                                                         *)
(* The repository declares the schema twice: the Peewee models of          *)
(* database.py / config/database.py (ON DELETE CASCADE on the three        *)
(* foreign keys, no UNIQUE column) and the SQLAlchemy models of            *)
(* config/migrations.py that Alembic migrates from (UNIQUE roles.name and  *)
(* users.email, foreign keys without ON DELETE, i.e. RESTRICT).  The       *)
(* services issue plain INSERT / UPDATE / DELETE statements, so which      *)
(* constraints act is decided by the DDL that created the tables: schema   *)
(* is chosen in Init and never changes.                                    *)
(***************************************************************************)
EXTENDS Integers, Sequences, FiniteSets, TLC

VARIABLES schema, roles, users, groups, user_groups, nextId, last,
          pending, lifespan, connected

vars == <<schema, roles, users, groups, user_groups, nextId, last,
          pending, lifespan, connected>>
tables == <<roles, users, groups, user_groups>>

(***************************************************************************)
(* Bounds: how many rows each table's AUTO_INCREMENT counter may hand out. *)
(***************************************************************************)
MaxRoles == 2
MaxUsers == 2
MaxGroups == 1
MaxUserGroups == 2
\* How many update requests may be between their fetch and their save at once.
MaxRequests == 2

RoleIds == 1..MaxRoles
UserIds == 1..MaxUsers
GroupIds == 1..MaxGroups
UserGroupIds == 1..MaxUserGroups
Requests == 1..MaxRequests

\* The two MySQLDatabase objects of the application (database.py and
\* config/database.py); main.py manages the first.
Handles == {"database", "config.database"}
LifespanHandle == "database"

\* A request slot that holds no fetched instance.
Idle == [op |-> "idle", id |-> 0, input |-> <<>>, inst |-> <<>>]

SchemaVariants == {"peewee", "alembic"}

(***************************************************************************)
(* Request bodies (models/roles.py, models/groups.py, models/user.py,      *)
(* models/user_groups.py): every field is required.  The bodies are drawn  *)
(* from small sets in which two bodies can share the unique field and      *)
(* differ elsewhere, or differ in every field.                             *)
(***************************************************************************)
RoleBodies ==
    { [name |-> "admin", description |-> "d1"],
      [name |-> "admin", description |-> "d2"],
      [name |-> "guest", description |-> "d2"] }

GroupBodies ==
    { [name |-> "g1", description |-> "d1"],
      [name |-> "g2", description |-> "d2"] }

Profile(e, r) ==
    IF e = "e1"
    THEN [name |-> "n1", email |-> e, password |-> "p1", profile_photo |-> "f1",
          account_type |-> "a1", role_id |-> r]
    ELSE [name |-> "n2", email |-> e, password |-> "p2", profile_photo |-> "f2",
          account_type |-> "a2", role_id |-> r]

UserBodies == { Profile(e, r) : e \in {"e1", "e2"}, r \in RoleIds }

UserGroupBodies == [user_id : UserIds, group_id : GroupIds]

(***************************************************************************)
(* Outcomes of a service call.                                             *)
(***************************************************************************)
Row(r) == [kind |-> "row", code |-> 200, detail |-> "", rows |-> <<r>>]
Rows(s) == [kind |-> "list", code |-> 200, detail |-> "", rows |-> s]
Status(msg) == [kind |-> "status", code |-> 200, detail |-> msg, rows |-> <<>>]
HTTPException(status_code, detail) ==
    [kind |-> "HTTPException", code |-> status_code, detail |-> detail, rows |-> <<>>]
\* An exception no except clause of the handler catches: it leaves the
\* service untranslated (the framework answers 500 Internal Server Error).
Uncaught(exc) == [kind |-> "raise", code |-> 500, detail |-> exc, rows |-> <<>>]

Call(op, id, body, result) ==
    [op |-> op, id |-> id, input |-> body, result |-> result]

(***************************************************************************)
(* Storage helpers.                                                        *)
(***************************************************************************)
Restrict(t, S) == [i \in S |-> t[i]]

RECURSIVE SeqOf(_, _)
SeqOf(t, S) ==
    IF S = {} THEN <<>>
    ELSE LET m == CHOOSE x \in S : \A y \in S : x <= y
         IN  <<t[m]>> \o SeqOf(t, S \ {m})

\* Faulty variant of Select: only the first row is fetched.
SelectFirst(t) ==
    IF DOMAIN t = {} THEN <<>>
    ELSE <<t[CHOOSE x \in DOMAIN t : \A y \in DOMAIN t : x <= y]>>

\* list(Model.select()): every stored row, in primary-key order.
Select(t) == SeqOf(t, DOMAIN t)

\* Faulty variant of Get: a miss answers an empty success instead of 404.
GetOrNone(t, id, detail) ==
    IF id \in DOMAIN t THEN Row(t[id]) ELSE Rows(<<>>)

\* Model.get(Model.id == id): the stored row, or DoesNotExist -> 404.
Get(t, id, detail) ==
    IF id \in DOMAIN t THEN Row(t[id]) ELSE HTTPException(404, detail)

\* Faulty variant of DeleteWhere: the DELETE statement without its where clause.
DeleteEveryRow(t, id) == Restrict(t, {})

\* Model.delete().where(Model.id == id).execute(): a DELETE statement that
\* matches no row deletes nothing and raises nothing.
DeleteWhere(t, id) == Restrict(t, DOMAIN t \ {id})

Init ==
    /\ schema \in SchemaVariants
    /\ roles = <<>>
    /\ users = <<>>
    /\ groups = <<>>
    /\ user_groups = <<>>
    /\ nextId = [roles |-> 1, users |-> 1, groups |-> 1, user_groups |-> 1]
    /\ last = Call("none", 0, <<>>, Status(""))
    /\ pending = [s \in Requests |-> Idle]
    /\ lifespan = "serving"
    /\ connected = Handles

(***************************************************************************)
(* Constraints of the tables, as declared by the DDL variant in force.     *)
(***************************************************************************)
\* roles.name: unique=True in migrations.py, no unique in database.py.
UniqueRoleName == schema = "alembic"
\* users.email: unique=True in migrations.py, no unique in database.py.
UniqueUserEmail == schema = "alembic"
\* users.role_id, user_groups.user_id, user_groups.group_id: on_delete='CASCADE'
\* in database.py, ForeignKey(...) without ondelete (RESTRICT) in migrations.py.
OnDeleteCascade == schema = "peewee"
\* user_groups: no variant declares (user_id, group_id) unique; the primary key
\* of migrations.py is (id, user_id, group_id) with id AUTO_INCREMENT.
UniqueUserGroupPair == FALSE

\* The constraint checks of one INSERT or UPDATE statement (self is the id of
\* the updated row, 0 for an INSERT): TRUE when MySQL raises IntegrityError.
RoleIntegrityError(body, self) ==
    UniqueRoleName /\ \E i \in DOMAIN roles \ {self} : roles[i].name = body.name

\* Faulty variant of UserIntegrityError: users.role_id without a foreign key.
UserIntegrityErrorNoForeignKey(body, self) ==
    UniqueUserEmail /\ \E i \in DOMAIN users \ {self} : users[i].email = body.email

UserIntegrityError(body, self) ==
    \/ body.role_id \notin DOMAIN roles
    \/ UniqueUserEmail /\ \E i \in DOMAIN users \ {self} : users[i].email = body.email

GroupIntegrityError(body, self) == FALSE

UserGroupIntegrityError(body, self) ==
    \/ body.user_id \notin DOMAIN users
    \/ body.group_id \notin DOMAIN groups
    \/ UniqueUserGroupPair /\ \E i \in DOMAIN user_groups \ {self} :
           /\ user_groups[i].user_id = body.user_id
           /\ user_groups[i].group_id = body.group_id

\* The model instances the services build and the rows the statements write.
RoleRow(id, body) == [id |-> id, name |-> body.name, description |-> body.description]
GroupRow(id, body) == [id |-> id, name |-> body.name, description |-> body.description]
UserRow(id, body) ==
    [id |-> id, name |-> body.name, email |-> body.email, password |-> body.password,
     profile_photo |-> body.profile_photo, account_type |-> body.account_type,
     role_id |-> body.role_id]
UserGroupRow(id, body) == [id |-> id, user_id |-> body.user_id, group_id |-> body.group_id]

\* Faulty variant of Insert: the instance is built but never written.
InsertUnsaved(t, row) == t

\* INSERT of a row under a fresh AUTO_INCREMENT id; UPDATE ... WHERE id = id,
\* which changes nothing when no row has that id.
Insert(t, row) == (row.id :> row) @@ t
\* Faulty variant of Update: the instance is assigned but never saved.
UpdateOrInsert(t, row) == (row.id :> row) @@ t
UpdateEveryRow(t, row) == [i \in DOMAIN t |-> [row EXCEPT !.id = i]]
UpdateUnsaved(t, row) == t

Update(t, row) == IF row.id \in DOMAIN t THEN [t EXCEPT ![row.id] = row] ELSE t

\* Faulty variant of UsersOfRole: the delete sees no referencing user.
UsersOfRoleUnchecked(role_id) == {}

\* Rows that reference a parent row through a foreign key.
UsersOfRole(role_id) == {u \in DOMAIN users : users[u].role_id = role_id}
UserGroupsOfNoUser(U) == {}
UserGroupsOfUsers(U) == {g \in DOMAIN user_groups : user_groups[g].user_id \in U}
UserGroupsOfGroup(group_id) ==
    {g \in DOMAIN user_groups : user_groups[g].group_id = group_id}

(***************************************************************************)
(* RolesService                                                            *)
(***************************************************************************)
get_roles ==
    /\ last' = Call("get_roles", 0, <<>>, Rows(Select(roles)))
    /\ UNCHANGED <<schema, tables, nextId>>

get_role(role_id) ==
    /\ last' = Call("get_role", role_id, <<>>, Get(roles, role_id, "Role not found"))
    /\ UNCHANGED <<schema, tables, nextId>>

\* A create whose id is one more than the largest stored id.
create_role_after_max(role) ==
    LET id == IF DOMAIN roles = {} THEN 1
              ELSE 1 + CHOOSE i \in DOMAIN roles : \A j \in DOMAIN roles : j <= i
    IN  IF RoleIntegrityError(role, 0)
        THEN /\ last' = Call("create_role", 0, <<role>>,
                    HTTPException(500, "An error occurred while creating the role"))
             /\ UNCHANGED <<schema, tables, nextId>>
        ELSE /\ id <= MaxRoles
             /\ roles' = Insert(roles, RoleRow(id, role))
             /\ nextId' = [nextId EXCEPT !.roles = id + 1]
             /\ last' = Call("create_role", 0, <<role>>, Row(RoleRow(id, role)))
             /\ UNCHANGED <<schema, users, groups, user_groups>>

create_role(role) ==
    IF RoleIntegrityError(role, 0)
    THEN /\ last' = Call("create_role", 0, <<role>>,
                HTTPException(500, "An error occurred while creating the role"))
         /\ UNCHANGED <<schema, tables, nextId>>
    ELSE /\ nextId.roles <= MaxRoles
         /\ roles' = Insert(roles, RoleRow(nextId.roles, role))
         /\ nextId' = [nextId EXCEPT !.roles = @ + 1]
         /\ last' = Call("create_role", 0, <<role>>, Row(RoleRow(nextId.roles, role)))
         /\ UNCHANGED <<schema, users, groups, user_groups>>

\* Faulty variant of update_role: a missing row is inserted instead of reported.
update_or_create_role(role_id, role) ==
    IF role_id \notin DOMAIN roles
    THEN /\ roles' = Insert(roles, RoleRow(role_id, role))
         /\ last' = Call("update_role", role_id, <<role>>, Row(RoleRow(role_id, role)))
         /\ UNCHANGED <<schema, users, groups, user_groups, nextId>>
    ELSE /\ roles' = Update(roles, RoleRow(role_id, role))
         /\ last' = Call("update_role", role_id, <<role>>, Row(RoleRow(role_id, role)))
         /\ UNCHANGED <<schema, users, groups, user_groups, nextId>>

update_role(role_id, role) ==
    IF role_id \notin DOMAIN roles
    THEN /\ last' = Call("update_role", role_id, <<role>>,
                HTTPException(404, "Role not found"))
         /\ UNCHANGED <<schema, tables, nextId>>
    ELSE IF RoleIntegrityError(role, role_id)
    THEN /\ last' = Call("update_role", role_id, <<role>>, Uncaught("IntegrityError"))
         /\ UNCHANGED <<schema, tables, nextId>>
    ELSE /\ roles' = Update(roles, RoleRow(role_id, role))
         /\ last' = Call("update_role", role_id, <<role>>, Row(RoleRow(role_id, role)))
         /\ UNCHANGED <<schema, users, groups, user_groups, nextId>>

delete_role(role_id) ==
    IF role_id \in DOMAIN roles /\ UsersOfRole(role_id) # {} /\ ~OnDeleteCascade
    THEN /\ last' = Call("delete_role", role_id, <<>>, Uncaught("IntegrityError"))
         /\ UNCHANGED <<schema, tables, nextId>>
    ELSE /\ roles' = DeleteWhere(roles, role_id)
         /\ users' = IF role_id \in DOMAIN roles
                     THEN Restrict(users, DOMAIN users \ UsersOfRole(role_id))
                     ELSE users
         /\ user_groups' = IF role_id \in DOMAIN roles
                           THEN Restrict(user_groups, DOMAIN user_groups
                                    \ UserGroupsOfUsers(UsersOfRole(role_id)))
                           ELSE user_groups
         /\ last' = Call("delete_role", role_id, <<>>, Status("Role deleted"))
         /\ UNCHANGED <<schema, groups, nextId>>

(***************************************************************************)
(* UserService                                                             *)
(***************************************************************************)
get_users ==
    /\ last' = Call("get_users", 0, <<>>, Rows(Select(users)))
    /\ UNCHANGED <<schema, tables, nextId>>

get_user(user_id) ==
    /\ last' = Call("get_user", user_id, <<>>, Get(users, user_id, "User not found"))
    /\ UNCHANGED <<schema, tables, nextId>>

\* UserModel.create issues the INSERT without looking the role up, so the
\* except DoesNotExist clause (HTTP 400) is never entered: an absent role_id
\* is the foreign-key IntegrityError of the INSERT.
\* A create that stores its row before the failure is detected.
create_user_stored_then_failed(user) ==
    /\ nextId.users <= MaxUsers
    /\ users' = Insert(users, UserRow(nextId.users, user))
    /\ nextId' = [nextId EXCEPT !.users = @ + 1]
    /\ last' = Call("create_user", 0, <<user>>,
           IF UserIntegrityError(user, 0)
           THEN HTTPException(500, "An error occurred while creating the user")
           ELSE Row(UserRow(nextId.users, user)))
    /\ UNCHANGED <<schema, roles, groups, user_groups>>

create_user(user) ==
    IF UserIntegrityError(user, 0)
    THEN /\ last' = Call("create_user", 0, <<user>>,
                HTTPException(500, "An error occurred while creating the user"))
         /\ UNCHANGED <<schema, tables, nextId>>
    ELSE /\ nextId.users <= MaxUsers
         /\ users' = Insert(users, UserRow(nextId.users, user))
         /\ nextId' = [nextId EXCEPT !.users = @ + 1]
         /\ last' = Call("create_user", 0, <<user>>, Row(UserRow(nextId.users, user)))
         /\ UNCHANGED <<schema, roles, groups, user_groups>>

update_user(user_id, user) ==
    IF user_id \notin DOMAIN users
    THEN /\ last' = Call("update_user", user_id, <<user>>,
                HTTPException(404, "User not found"))
         /\ UNCHANGED <<schema, tables, nextId>>
    ELSE IF UserIntegrityError(user, user_id)
    THEN /\ last' = Call("update_user", user_id, <<user>>, Uncaught("IntegrityError"))
         /\ UNCHANGED <<schema, tables, nextId>>
    ELSE /\ users' = Update(users, UserRow(user_id, user))
         /\ last' = Call("update_user", user_id, <<user>>, Row(UserRow(user_id, user)))
         /\ UNCHANGED <<schema, roles, groups, user_groups, nextId>>

delete_user(user_id) ==
    IF user_id \in DOMAIN users /\ UserGroupsOfUsers({user_id}) # {} /\ ~OnDeleteCascade
    THEN /\ last' = Call("delete_user", user_id, <<>>, Uncaught("IntegrityError"))
         /\ UNCHANGED <<schema, tables, nextId>>
    ELSE /\ users' = DeleteWhere(users, user_id)
         /\ user_groups' = IF user_id \in DOMAIN users
                           THEN Restrict(user_groups, DOMAIN user_groups
                                    \ UserGroupsOfUsers({user_id}))
                           ELSE user_groups
         /\ last' = Call("delete_user", user_id, <<>>, Status("User deleted"))
         /\ UNCHANGED <<schema, roles, groups, nextId>>

(***************************************************************************)
(* GroupsService                                                           *)
(***************************************************************************)
get_groups ==
    /\ last' = Call("get_groups", 0, <<>>, Rows(Select(groups)))
    /\ UNCHANGED <<schema, tables, nextId>>

get_group(group_id) ==
    /\ last' = Call("get_group", group_id, <<>>, Get(groups, group_id, "Group not found"))
    /\ UNCHANGED <<schema, tables, nextId>>

create_group(group) ==
    IF GroupIntegrityError(group, 0)
    THEN /\ last' = Call("create_group", 0, <<group>>,
                HTTPException(500, "An error occurred while creating the group"))
         /\ UNCHANGED <<schema, tables, nextId>>
    ELSE /\ nextId.groups <= MaxGroups
         /\ groups' = Insert(groups, GroupRow(nextId.groups, group))
         /\ nextId' = [nextId EXCEPT !.groups = @ + 1]
         /\ last' = Call("create_group", 0, <<group>>, Row(GroupRow(nextId.groups, group)))
         /\ UNCHANGED <<schema, roles, users, user_groups>>

update_group(group_id, group) ==
    IF group_id \notin DOMAIN groups
    THEN /\ last' = Call("update_group", group_id, <<group>>,
                HTTPException(404, "Group not found"))
         /\ UNCHANGED <<schema, tables, nextId>>
    ELSE IF GroupIntegrityError(group, group_id)
    THEN /\ last' = Call("update_group", group_id, <<group>>, Uncaught("IntegrityError"))
         /\ UNCHANGED <<schema, tables, nextId>>
    ELSE /\ groups' = Update(groups, GroupRow(group_id, group))
         /\ last' = Call("update_group", group_id, <<group>>, Row(GroupRow(group_id, group)))
         /\ UNCHANGED <<schema, roles, users, user_groups, nextId>>

delete_group(group_id) ==
    IF group_id \in DOMAIN groups /\ UserGroupsOfGroup(group_id) # {} /\ ~OnDeleteCascade
    THEN /\ last' = Call("delete_group", group_id, <<>>, Uncaught("IntegrityError"))
         /\ UNCHANGED <<schema, tables, nextId>>
    ELSE /\ groups' = DeleteWhere(groups, group_id)
         /\ user_groups' = IF group_id \in DOMAIN groups
                           THEN Restrict(user_groups, DOMAIN user_groups
                                    \ UserGroupsOfGroup(group_id))
                           ELSE user_groups
         /\ last' = Call("delete_group", group_id, <<>>, Status("Group deleted"))
         /\ UNCHANGED <<schema, roles, users, nextId>>

(***************************************************************************)
(* UserGroupsService                                                       *)
(***************************************************************************)
get_user_groups ==
    /\ last' = Call("get_user_groups", 0, <<>>, Rows(Select(user_groups)))
    /\ UNCHANGED <<schema, tables, nextId>>

get_user_group(user_group_id) ==
    /\ last' = Call("get_user_group", user_group_id, <<>>,
                    Get(user_groups, user_group_id, "User-group association not found"))
    /\ UNCHANGED <<schema, tables, nextId>>

create_user_group(user_group) ==
    IF UserGroupIntegrityError(user_group, 0)
    THEN /\ last' = Call("create_user_group", 0, <<user_group>>,
                HTTPException(500,
                    "An error occurred while creating the user-group association"))
         /\ UNCHANGED <<schema, tables, nextId>>
    ELSE /\ nextId.user_groups <= MaxUserGroups
         /\ user_groups' = Insert(user_groups, UserGroupRow(nextId.user_groups, user_group))
         /\ nextId' = [nextId EXCEPT !.user_groups = @ + 1]
         /\ last' = Call("create_user_group", 0, <<user_group>>,
                         Row(UserGroupRow(nextId.user_groups, user_group)))
         /\ UNCHANGED <<schema, roles, users, groups>>

update_user_group(user_group_id, user_group) ==
    IF user_group_id \notin DOMAIN user_groups
    THEN /\ last' = Call("update_user_group", user_group_id, <<user_group>>,
                HTTPException(404, "User group not found"))
         /\ UNCHANGED <<schema, tables, nextId>>
    ELSE IF UserGroupIntegrityError(user_group, user_group_id)
    THEN /\ last' = Call("update_user_group", user_group_id, <<user_group>>,
                         Uncaught("IntegrityError"))
         /\ UNCHANGED <<schema, tables, nextId>>
    ELSE /\ user_groups' = Update(user_groups, UserGroupRow(user_group_id, user_group))
         /\ last' = Call("update_user_group", user_group_id, <<user_group>>,
                         Row(UserGroupRow(user_group_id, user_group)))
         /\ UNCHANGED <<schema, roles, users, groups, nextId>>

\* Faulty variant of delete_user_group: the delete recurses into the user the
\* association points at.
delete_user_group_recursive(user_group_id) ==
    /\ user_groups' = DeleteWhere(user_groups, user_group_id)
    /\ users' = IF user_group_id \in DOMAIN user_groups
                THEN DeleteWhere(users, user_groups[user_group_id].user_id)
                ELSE users
    /\ last' = Call("delete_user_group", user_group_id, <<>>,
                    Status("User-group association deleted"))
    /\ UNCHANGED <<schema, roles, groups, nextId>>

delete_user_group(user_group_id) ==
    /\ user_groups' = DeleteWhere(user_groups, user_group_id)
    /\ last' = Call("delete_user_group", user_group_id, <<>>,
                    Status("User-group association deleted"))
    /\ UNCHANGED <<schema, roles, users, groups, nextId>>

\* A handler that runs to its end with no other request in between: no
\* fetched instance is touched, the application keeps serving, and the
\* handles, both open since Init, stay open.
Atomic(handler) == handler /\ UNCHANGED <<pending, lifespan, connected>>

\* One request at a time.
Next ==
    \/ Atomic(get_roles)
    \/ \E id \in RoleIds : Atomic(get_role(id))
    \/ \E b \in RoleBodies : Atomic(create_role(b))
    \/ \E id \in RoleIds, b \in RoleBodies : Atomic(update_role(id, b))
    \/ \E id \in RoleIds : Atomic(delete_role(id))
    \/ Atomic(get_users)
    \/ \E id \in UserIds : Atomic(get_user(id))
    \/ \E b \in UserBodies : Atomic(create_user(b))
    \/ \E id \in UserIds, b \in UserBodies : Atomic(update_user(id, b))
    \/ \E id \in UserIds : Atomic(delete_user(id))
    \/ Atomic(get_groups)
    \/ \E id \in GroupIds : Atomic(get_group(id))
    \/ \E b \in GroupBodies : Atomic(create_group(b))
    \/ \E id \in GroupIds, b \in GroupBodies : Atomic(update_group(id, b))
    \/ \E id \in GroupIds : Atomic(delete_group(id))
    \/ Atomic(get_user_groups)
    \/ \E id \in UserGroupIds : Atomic(get_user_group(id))
    \/ \E b \in UserGroupBodies : Atomic(create_user_group(b))
    \/ \E id \in UserGroupIds, b \in UserGroupBodies : Atomic(update_user_group(id, b))
    \/ \E id \in UserGroupIds : Atomic(delete_user_group(id))

Spec == Init /\ [][Next]_vars

(***************************************************************************)
(* Vocabulary of the properties.                                           *)
(***************************************************************************)
GetOps == {"get_role", "get_user", "get_group", "get_user_group"}
CreateOps == {"create_role", "create_user", "create_group", "create_user_group"}
UpdateOps == {"update_role", "update_user", "update_group", "update_user_group"}
DeleteOps == {"delete_role", "delete_user", "delete_group", "delete_user_group"}

\* The table a service operation works on, among the four given.
Pick(op, r, u, g, ug) ==
    CASE op \in {"get_roles", "get_role", "create_role", "update_role", "delete_role"}
            -> r
      [] op \in {"get_users", "get_user", "create_user", "update_user", "delete_user"}
            -> u
      [] op \in {"get_groups", "get_group", "create_group", "update_group",
                 "delete_group"} -> g
      [] OTHER -> ug

TableOf(op) == Pick(op, roles, users, groups, user_groups)

NotFound(r) == r.kind = "HTTPException" /\ r.code = 404
\* The translation of the storage layer's IntegrityError by the create handlers.
IntegrityFailure(r) == r.kind = "HTTPException" /\ r.code = 500
Succeeded(r) == r.kind \in {"row", "list", "status"}

\* C1: delete(id) with an id that is not present fails with NotFound and does
\* not return the success acknowledgment.
C1_DeleteAbsentIsNotFound ==
    [][ (last'.op \in DeleteOps /\ last'.id \notin DOMAIN TableOf(last'.op))
            => NotFound(last'.result) ]_vars

\* C2: get(id) with an id that is not present fails with NotFound (404), and
\* get(id) with a present id returns exactly the stored row with that key.
C2_GetReturnsStoredRowOrNotFound ==
    last.op \in GetOps =>
        IF last.id \in DOMAIN TableOf(last.op)
        THEN /\ last.result.kind = "row"
             /\ last.result.rows = << TableOf(last.op)[last.id] >>
             /\ last.result.rows[1].id = last.id
        ELSE NotFound(last.result)

C2_Witness ==
    /\ last.op = "get_user_group"
    /\ last.id \in DOMAIN user_groups
    /\ last.result.rows = << user_groups[last.id] >>

\* A field set is valid when every parent it references is present and it
\* duplicates no unique value (Role.name, User.email).
ValidBody(op, f) ==
    CASE op = "create_role" -> \A i \in DOMAIN roles : roles[i].name # f.name
      [] op = "create_user" -> /\ f.role_id \in DOMAIN roles
                               /\ \A i \in DOMAIN users : users[i].email # f.email
      [] op = "create_group" -> TRUE
      [] OTHER -> f.user_id \in DOMAIN users /\ f.group_id \in DOMAIN groups

\* The fields of a row other than its generated id.
FieldsOf(r) == [k \in DOMAIN r \ {"id"} |-> r[k]]

\* C3: create(f) with a valid field set f succeeds and returns a row r with a
\* generated id and the fields of f, and a get(r.id) issued immediately
\* afterwards returns a record equal to r field by field.
C3_CreateThenGetRoundTrip ==
    [][ (last'.op \in CreateOps /\ ValidBody(last'.op, last'.input[1])) =>
            /\ last'.result.kind = "row"
            /\ LET r == last'.result.rows[1]
               IN  /\ r.id \notin DOMAIN TableOf(last'.op)
                   /\ FieldsOf(r) = last'.input[1]
                   /\ Get(Pick(last'.op, roles', users', groups', user_groups'), r.id, "")
                          = Row(r) ]_vars

C3_Witness ==
    /\ last.op = "create_user_group"
    /\ last.result.kind = "row"
    /\ Get(user_groups, last.result.rows[1].id, "") = last.result

\* C4: a second Role with an existing name, or a second User with an existing
\* email, is rejected; no two Role rows share a name and no two User rows
\* share an email.
C4_UniqueRoleNameAndUserEmail ==
    /\ \A i, j \in DOMAIN roles : roles[i].name = roles[j].name => i = j
    /\ \A i, j \in DOMAIN users : users[i].email = users[j].email => i = j

\* The two reasons a create_user can be rejected for, each alone.
DuplicateEmailOnly(f) ==
    /\ f.role_id \in DOMAIN roles
    /\ \E i \in DOMAIN users : users[i].email = f.email
AbsentRoleOnly(f) ==
    /\ f.role_id \notin DOMAIN roles
    /\ \A i \in DOMAIN users : users[i].email # f.email

\* C5: a create rejected for a duplicated unique value and a create rejected
\* for another integrity reason never yield the same error value.  (A rejected
\* create changes no table, so the reason of the previous call can be read in
\* the state the next call starts from.)
C5_UniquenessErrorIsDistinct ==
    [][ ( /\ last.op = "create_user" /\ ~Succeeded(last.result)
          /\ last'.op = "create_user" /\ ~Succeeded(last'.result)
          /\ DuplicateEmailOnly(last.input[1])
          /\ AbsentRoleOnly(last'.input[1]) )
            => last.result # last'.result ]_vars

\* C6: create_user with a role_id for which no Role row exists, and
\* create_user_group with a user_id or group_id for which no User or Group row
\* exists, fails with the integrity error of the storage layer and inserts no
\* row.
C6_CreateWithAbsentParentFails ==
    [][ ( \/ /\ last'.op = "create_user"
             /\ last'.input[1].role_id \notin DOMAIN roles
          \/ /\ last'.op = "create_user_group"
             /\ \/ last'.input[1].user_id \notin DOMAIN users
                \/ last'.input[1].group_id \notin DOMAIN groups )
            => /\ IntegrityFailure(last'.result)
               /\ tables' = tables
               /\ nextId' = nextId ]_vars

C6_Witness ==
    /\ last.op = "create_user"
    /\ last.input[1].role_id \notin DOMAIN roles
    /\ DOMAIN roles # {}
    /\ IntegrityFailure(last.result)

\* C7: in every reachable state every User row's role_id is the id of an
\* existing Role row, and every UserGroup row's user_id and group_id are the
\* ids of an existing User row and an existing Group row.
C7_NoDanglingForeignKey ==
    /\ \A u \in DOMAIN users : users[u].role_id \in DOMAIN roles
    /\ \A g \in DOMAIN user_groups :
           /\ user_groups[g].user_id \in DOMAIN users
           /\ user_groups[g].group_id \in DOMAIN groups

\* A role that had users was deleted, or refused to be, and users remain.
C7_Witness ==
    /\ last.op = "delete_role"
    /\ nextId.users > 1
    /\ DOMAIN users # {}
    /\ DOMAIN user_groups # {}

\* C8: deleting a Role that is referenced by one or more Users succeeds
\* without being blocked, and afterwards no User row has that role_id.
C8_DeleteRoleCascadesToUsers ==
    [][ ( /\ last'.op = "delete_role"
          /\ last'.id \in DOMAIN roles
          /\ UsersOfRole(last'.id) # {} )
            => /\ last'.result.kind = "status"
               /\ last'.id \notin DOMAIN roles'
               /\ \A u \in DOMAIN users' : users'[u].role_id # last'.id ]_vars

\* C9: deleting a User or a Group that is referenced by UserGroup rows
\* succeeds without being blocked and removes every UserGroup row whose
\* user_id (respectively group_id) is the deleted id.
C9_DeleteParentCascadesToUserGroups ==
    [][ /\ ( /\ last'.op = "delete_user"
             /\ last'.id \in DOMAIN users
             /\ UserGroupsOfUsers({last'.id}) # {} )
            => /\ last'.result.kind = "status"
               /\ last'.id \notin DOMAIN users'
               /\ \A g \in DOMAIN user_groups' : user_groups'[g].user_id # last'.id
        /\ ( /\ last'.op = "delete_group"
             /\ last'.id \in DOMAIN groups
             /\ UserGroupsOfGroup(last'.id) # {} )
            => /\ last'.result.kind = "status"
               /\ last'.id \notin DOMAIN groups'
               /\ \A g \in DOMAIN user_groups' : user_groups'[g].group_id # last'.id
      ]_vars

\* C10: the UserGroup table holds at most one row per (user_id, group_id)
\* pair.
C10_UniqueUserGroupPair ==
    \A i, j \in DOMAIN user_groups :
        ( /\ user_groups[i].user_id = user_groups[j].user_id
          /\ user_groups[i].group_id = user_groups[j].group_id ) => i = j

ListOps == {"get_roles", "get_users", "get_groups", "get_user_groups"}

\* A full record f is valid for the row id when every parent it references is
\* present and no other row holds its unique value.
ValidUpdate(op, id, f) ==
    CASE op = "update_role" -> \A i \in DOMAIN roles \ {id} : roles[i].name # f.name
      [] op = "update_user" -> /\ f.role_id \in DOMAIN roles
                               /\ \A i \in DOMAIN users \ {id} : users[i].email # f.email
      [] op = "update_group" -> TRUE
      [] OTHER -> f.user_id \in DOMAIN users /\ f.group_id \in DOMAIN groups

\* C11: for a present id and a valid full record f, update(id, f) overwrites
\* every mutable field of that row with the value in f, returns the updated
\* row, and a get(id) issued afterwards returns a row whose fields all equal f
\* and whose id is unchanged.
C11_UpdateOverwritesEveryField ==
    [][ ( /\ last'.op \in UpdateOps
          /\ last'.id \in DOMAIN TableOf(last'.op)
          /\ ValidUpdate(last'.op, last'.id, last'.input[1]) ) =>
            /\ last'.result.kind = "row"
            /\ LET r == last'.result.rows[1]
                   after == Pick(last'.op, roles', users', groups', user_groups')
               IN  /\ r.id = last'.id
                   /\ FieldsOf(r) = last'.input[1]
                   /\ Get(after, last'.id, "") = Row(r)
                   /\ DOMAIN after = DOMAIN TableOf(last'.op) ]_vars

C11_Witness ==
    /\ last.op = "update_user"
    /\ last.result.kind = "row"
    /\ last.id \in DOMAIN users
    /\ FieldsOf(users[last.id]) = last.input[1]
    /\ Cardinality(DOMAIN users) = 2

\* C12: update(id, f) with an id that is not present fails with NotFound (404)
\* and leaves every table unchanged.
C12_UpdateAbsentIsNotFound ==
    [][ (last'.op \in UpdateOps /\ last'.id \notin DOMAIN TableOf(last'.op)) =>
            /\ NotFound(last'.result)
            /\ tables' = tables
            /\ nextId' = nextId ]_vars

\* An update of an id that a delete removed is answered 404.
C12_Witness ==
    /\ last.op = "update_role"
    /\ last.id \notin DOMAIN roles
    /\ last.id < nextId.roles
    /\ NotFound(last.result)

\* The constraints an UPDATE can violate: a foreign key (declared by both DDL
\* variants) or a unique column (where the DDL in force declares it).
ViolatesConstraint(op, id, f) ==
    CASE op = "update_role" ->
            UniqueRoleName /\ \E i \in DOMAIN roles \ {id} : roles[i].name = f.name
      [] op = "update_user" ->
            \/ f.role_id \notin DOMAIN roles
            \/ UniqueUserEmail /\ \E i \in DOMAIN users \ {id} : users[i].email = f.email
      [] op = "update_group" -> FALSE
      [] OTHER -> f.user_id \notin DOMAIN users \/ f.group_id \notin DOMAIN groups

\* C13: an update that violates a storage constraint returns one of the
\* declared error kinds to the caller as an error value, not an untranslated
\* storage exception, and leaves the targeted row unchanged.
C13_UpdateViolationIsTranslated ==
    [][ ( /\ last'.op \in UpdateOps
          /\ last'.id \in DOMAIN TableOf(last'.op)
          /\ ViolatesConstraint(last'.op, last'.id, last'.input[1]) ) =>
            /\ last'.result.kind = "HTTPException"
            /\ tables' = tables ]_vars

\* C14: for a present id, delete(id) removes that row and returns a status
\* message, not the deleted row; any get(id), update(id, _) or delete(id) issued
\* afterwards for the same id fails with NotFound.
C14_DeleteThenNotFound ==
    [][ /\ (last'.op \in DeleteOps /\ last'.id \in DOMAIN TableOf(last'.op)) =>
              /\ last'.result.kind = "status"
              /\ last'.result.rows = <<>>
              /\ last'.id \notin DOMAIN Pick(last'.op, roles', users', groups',
                                             user_groups')
        /\ ( /\ last'.op \in GetOps \cup UpdateOps \cup DeleteOps
             /\ last'.id \notin DOMAIN TableOf(last'.op)
             /\ last'.id < Pick(last'.op, nextId.roles, nextId.users, nextId.groups,
                                nextId.user_groups) )
              => NotFound(last'.result) ]_vars

\* C15: list() returns exactly the rows currently stored: every stored row
\* appears once with its current field values, and no removed row appears.
C15_ListReturnsStoredRows ==
    last.op \in ListOps =>
        LET s == last.result.rows
            t == TableOf(last.op)
        IN  /\ last.result.kind = "list"
            /\ Len(s) = Cardinality(DOMAIN t)
            /\ \A i \in DOMAIN t : \E k \in 1..Len(s) : s[k] = t[i]
            /\ \A k \in 1..Len(s) : s[k].id \in DOMAIN t /\ s[k] = t[s[k].id]

\* A list taken after one of two created users was removed.
C15_Witness ==
    /\ last.op = "get_users"
    /\ Len(last.result.rows) = 1
    /\ nextId.users = 3

\* The rows of table t that come into existence, change and cease to exist in
\* a step to table tn.
Born(t, tn) == DOMAIN tn \ DOMAIN t
Changed(t, tn) == {i \in DOMAIN t \cap DOMAIN tn : t[i] # tn[i]}
Gone(t, tn) == DOMAIN t \ DOMAIN tn

\* The step to table tn is one that create operation c, update operation u or
\* delete operation d of the table's entity may take; cascaded is the set of
\* rows a parent's delete removes in this step.
Lifecycle(t, tn, c, u, d, cascaded) ==
    /\ \A i \in Born(t, tn) :
           /\ last'.op = c /\ last'.result.kind = "row"
           /\ last'.result.rows[1].id = i
    /\ \A i \in Changed(t, tn) :
           last'.op = u /\ last'.id = i /\ last'.result.kind = "row"
    /\ \A i \in Gone(t, tn) :
           \/ last'.op = d /\ last'.id = i
           \/ i \in cascaded

\* C16: a row of entity E comes into existence only in a successful create of
\* E, its field values change only in a successful update of that row, and it
\* ceases to exist only in a delete of that row or of a parent it cascades
\* from; list and get, and every failed call, change no row.
C16_RowLifecycle ==
    [][ /\ Lifecycle(roles, roles', "create_role", "update_role", "delete_role", {})
        /\ Lifecycle(groups, groups', "create_group", "update_group", "delete_group", {})
        /\ Lifecycle(users, users', "create_user", "update_user", "delete_user",
               IF last'.op = "delete_role" THEN UsersOfRole(last'.id) ELSE {})
        /\ Lifecycle(user_groups, user_groups', "create_user_group",
               "update_user_group", "delete_user_group",
               CASE last'.op = "delete_role" -> UserGroupsOfUsers(UsersOfRole(last'.id))
                 [] last'.op = "delete_user" -> UserGroupsOfUsers({last'.id})
                 [] last'.op = "delete_group" -> UserGroupsOfGroup(last'.id)
                 [] OTHER -> {})
        /\ (last'.op \in ListOps \cup GetOps \/ ~Succeeded(last'.result))
               => tables' = tables ]_vars

\* A delete_role that removed a role, its user and the user's association.
C16_Witness ==
    /\ last.op = "delete_role"
    /\ last.result.kind = "status"
    /\ nextId.users > 1 /\ DOMAIN users = {}
    /\ nextId.user_groups > 1 /\ DOMAIN user_groups = {}
    /\ DOMAIN groups # {}

\* C17: only Role->User, User->UserGroup and Group->UserGroup cascade: deleting
\* a Group removes no User and no Role row, deleting a User removes no Role and
\* no Group row, and deleting a UserGroup removes no User, Group or Role row.
C17_OnlyDeclaredEdgesCascade ==
    [][ /\ last'.op = "delete_group" => users' = users /\ roles' = roles
        /\ last'.op = "delete_user" => roles' = roles /\ groups' = groups
        /\ last'.op = "delete_user_group" =>
               users' = users /\ groups' = groups /\ roles' = roles ]_vars

\* A delete_group that removed the group and cascaded to its association while
\* the user and the role stayed.
C17_Witness ==
    /\ last.op = "delete_group"
    /\ last.result.kind = "status"
    /\ nextId.groups > 1 /\ DOMAIN groups = {}
    /\ nextId.user_groups > 1 /\ DOMAIN user_groups = {}
    /\ DOMAIN users # {}
    /\ DOMAIN roles # {}

(***************************************************************************)
(* Requests served concurrently.  The route functions are plain `def`s, so *)
(* FastAPI runs each request on a worker thread; create and delete are one *)
(* storage call each, update is two: Model.get, then save() after the      *)
(* body's fields were assigned to the fetched instance.  Other requests'   *)
(* storage calls can run between the two.                                  *)
(***************************************************************************)
Fetched(op, id, body, inst) == [op |-> op, id |-> id, input |-> <<body>>, inst |-> <<inst>>]

\* u_role = RolesModel.get(...); u_role.name = ...; u_role.description = ...
update_role_fetch(s, role_id, role) ==
    /\ pending[s] = Idle
    /\ IF role_id \notin DOMAIN roles
       THEN /\ last' = Call("update_role", role_id, <<role>>,
                   HTTPException(404, "Role not found"))
            /\ UNCHANGED pending
       ELSE /\ pending' = [pending EXCEPT ![s] =
                   Fetched("update_role", role_id, role,
                       [roles[role_id] EXCEPT !.name = role.name,
                                              !.description = role.description])]
            /\ UNCHANGED last
    /\ UNCHANGED <<schema, tables, nextId, lifespan, connected>>

\* u_role.save(); return u_role.  The UPDATE ... WHERE id = u_role.id can
\* violate a constraint only if it matches a row.
update_role_save(s) ==
    /\ pending[s].op = "update_role"
    /\ LET u_role == pending[s].inst[1]
           call(result) == Call("update_role", pending[s].id, pending[s].input, result)
       IN  IF u_role.id \in DOMAIN roles /\ RoleIntegrityError(u_role, u_role.id)
           THEN /\ last' = call(Uncaught("IntegrityError"))
                /\ UNCHANGED roles
           ELSE /\ roles' = Update(roles, u_role)
                /\ last' = call(Row(u_role))
    /\ pending' = [pending EXCEPT ![s] = Idle]
    /\ UNCHANGED <<schema, users, groups, user_groups, nextId, lifespan, connected>>

\* u_group = GroupsModel.get(...); u_group.name = ...; u_group.description = ...
update_group_fetch(s, group_id, group) ==
    /\ pending[s] = Idle
    /\ IF group_id \notin DOMAIN groups
       THEN /\ last' = Call("update_group", group_id, <<group>>,
                   HTTPException(404, "Group not found"))
            /\ UNCHANGED pending
       ELSE /\ pending' = [pending EXCEPT ![s] =
                   Fetched("update_group", group_id, group,
                       [groups[group_id] EXCEPT !.name = group.name,
                                                !.description = group.description])]
            /\ UNCHANGED last
    /\ UNCHANGED <<schema, tables, nextId, lifespan, connected>>

\* u_group.save(); return u_group
update_group_save(s) ==
    /\ pending[s].op = "update_group"
    /\ LET u_group == pending[s].inst[1]
           call(result) == Call("update_group", pending[s].id, pending[s].input, result)
       IN  IF u_group.id \in DOMAIN groups /\ GroupIntegrityError(u_group, u_group.id)
           THEN /\ last' = call(Uncaught("IntegrityError"))
                /\ UNCHANGED groups
           ELSE /\ groups' = Update(groups, u_group)
                /\ last' = call(Row(u_group))
    /\ pending' = [pending EXCEPT ![s] = Idle]
    /\ UNCHANGED <<schema, roles, users, user_groups, nextId, lifespan, connected>>

NextConc ==
    \/ \E b \in RoleBodies : Atomic(create_role(b))
    \/ \E id \in RoleIds : Atomic(delete_role(id))
    \/ \E s \in Requests, id \in RoleIds, b \in RoleBodies : update_role_fetch(s, id, b)
    \/ \E s \in Requests : update_role_save(s)
    \/ \E b \in GroupBodies : Atomic(create_group(b))
    \/ \E id \in GroupIds : Atomic(delete_group(id))
    \/ \E s \in Requests, id \in GroupIds, b \in GroupBodies : update_group_fetch(s, id, b)
    \/ \E s \in Requests : update_group_save(s)

\* The writing operations of RolesService and GroupsService, interleaved at
\* their storage calls.
SpecConc == Init /\ [][NextConc]_vars

\* C18: create, update and delete each take effect as one atomic storage
\* step, so an update racing with a delete of the same row behaves as one of
\* the two sequential orders; in particular an update never answers with the
\* updated row as a success while that row is absent from the store.
C18_UpdateSuccessImpliesRowPresent ==
    (last.op \in UpdateOps /\ last.result.kind = "row") =>
        last.id \in DOMAIN TableOf(last.op)

(***************************************************************************)
(* RolesService on its own, and the effect of create_role and update_role  *)
(* as a function of the roles table and its AUTO_INCREMENT counter, so     *)
(* that two calls can be run in both orders from the same store.           *)
(***************************************************************************)
NextRoles ==
    \/ Atomic(get_roles)
    \/ \E id \in RoleIds : Atomic(get_role(id))
    \/ \E b \in RoleBodies : Atomic(create_role(b))
    \/ \E id \in RoleIds, b \in RoleBodies : Atomic(update_role(id, b))
    \/ \E id \in RoleIds : Atomic(delete_role(id))

SpecRoles == Init /\ [][NextRoles]_vars

RoleCalls ==
    [op : {"create_role"}, id : {0}, body : RoleBodies] \cup
    [op : {"update_role"}, id : RoleIds, body : RoleBodies]

\* The unique index on roles.name refuses the name for row self of table t.
RoleNameTaken(t, name, self) ==
    UniqueRoleName /\ \E i \in DOMAIN t \ {self} : t[i].name = name

Effect(t, n, result) == [roles |-> t, next |-> n, result |-> result]

\* create_role / update_role run on the store st = [roles, next].
RoleCallEffect(c, st) ==
    IF c.op = "create_role"
    THEN IF RoleNameTaken(st.roles, c.body.name, 0)
         THEN Effect(st.roles, st.next,
                  HTTPException(500, "An error occurred while creating the role"))
         ELSE Effect(Insert(st.roles, RoleRow(st.next, c.body)), st.next + 1,
                  Row(RoleRow(st.next, c.body)))
    ELSE IF c.id \notin DOMAIN st.roles
         THEN Effect(st.roles, st.next, HTTPException(404, "Role not found"))
         ELSE IF RoleNameTaken(st.roles, c.body.name, c.id)
         THEN Effect(st.roles, st.next, Uncaught("IntegrityError"))
         ELSE Effect(Update(st.roles, RoleRow(c.id, c.body)), st.next,
                  Row(RoleRow(c.id, c.body)))

RoleStore == [roles |-> roles, next |-> nextId.roles]

\* Every create_role and update_role step of the service is the step
\* RoleCallEffect computes.
RoleCallAgrees ==
    last'.op \in {"create_role", "update_role"} =>
        LET e == RoleCallEffect(
                     [op |-> last'.op, id |-> last'.id, body |-> last'.input[1]],
                     RoleStore)
        IN  /\ roles' = e.roles
            /\ nextId'.roles = e.next
            /\ last'.result = e.result

\* c1 then c2, from store st.
InOrder(c1, c2, st) ==
    LET e1 == RoleCallEffect(c1, st)
        e2 == RoleCallEffect(c2, e1)
    IN  [roles |-> e2.roles, next |-> e2.next, first |-> e1.result, second |-> e2.result]

\* Both orders end in the same store and give each call the same outcome.
Commute(c1, c2, st) ==
    LET a == InOrder(c1, c2, st)
        b == InOrder(c2, c1, st)
    IN  /\ a.roles = b.roles
        /\ a.next = b.next
        /\ a.first = b.second
        /\ a.second = b.first

\* The row a call is addressed to: the id in its path, or the id the next
\* INSERT receives.
TargetRow(c, st) == IF c.op = "create_role" THEN st.next ELSE c.id

DifferentRows(c1, c2, st) == TargetRow(c1, st) # TargetRow(c2, st)

\* c writes a name that the unique index compares with what call o writes or
\* replaces.
SharesName(c, o, st) ==
    \/ c.body.name = o.body.name
    \/ o.op = "update_role" /\ o.id \in DOMAIN st.roles
           /\ c.body.name = st.roles[o.id].name

Uncoupled(c1, c2, st) ==
    UniqueRoleName => ~SharesName(c1, c2, st) /\ ~SharesName(c2, c1, st)

\* C19 as stated: two calls addressed to different rows (update_role(a, f)
\* and update_role(b, g) with a # b, or create_role(f) and update_role(b, g))
\* give the same final store and the same outcome for each call in either
\* order.
C19_DifferentRowsCommute ==
    \A c1, c2 \in RoleCalls :
        DifferentRows(c1, c2, RoleStore) => Commute(c1, c2, RoleStore)

\* C19 amended: create_role and update_role calls addressed to different
\* Role rows give the same final store and the same outcomes in either order
\* provided that, where roles.name carries a unique index, the two calls
\* write different names and neither writes the name stored in the row the
\* other updates.  The handlers' steps are those the two orders are computed
\* from.
C19_UncoupledRowsCommute ==
    [][ /\ RoleCallAgrees
        /\ \A c1, c2 \in RoleCalls :
               (DifferentRows(c1, c2, RoleStore) /\ Uncoupled(c1, c2, RoleStore)) =>
                   Commute(c1, c2, RoleStore) ]_vars

\* Under the unique index, two rows are stored, the last call was a
\* successful update_role, and two updates of the two rows that write
\* different free names both succeed and change the store.
C19_Witness ==
    /\ UniqueRoleName
    /\ last.op = "update_role" /\ Succeeded(last.result)
    /\ \E c1, c2 \in RoleCalls :
           /\ c1.op = "update_role" /\ c2.op = "update_role"
           /\ DifferentRows(c1, c2, RoleStore) /\ Uncoupled(c1, c2, RoleStore)
           /\ InOrder(c1, c2, RoleStore).first.kind = "row"
           /\ InOrder(c1, c2, RoleStore).second.kind = "row"
           /\ InOrder(c1, c2, RoleStore).roles # roles

(***************************************************************************)
(* The life of the process: manage_lifespan opens `connection` (the        *)
(* database object of database.py) before the first request and closes it  *)
(* in its finally clause; a service's storage call runs on the database    *)
(* object its model class was imported with, and Peewee (autoconnect)      *)
(* opens that object if it is closed.                                      *)
(***************************************************************************)
GroupOps == {"get_groups", "get_group", "create_group", "update_group", "delete_group"}

\* RolesService, UserService and UserGroupsService import their model from
\* database, GroupsService from config.database.
HandleOf(op) == IF op \in GroupOps THEN "config.database" ELSE "database"

InitLife ==
    /\ schema \in SchemaVariants
    /\ roles = <<>>
    /\ users = <<>>
    /\ groups = <<>>
    /\ user_groups = <<>>
    /\ nextId = [roles |-> 1, users |-> 1, groups |-> 1, user_groups |-> 1]
    /\ last = Call("none", 0, <<>>, Status(""))
    /\ pending = [s \in Requests |-> Idle]
    /\ lifespan = "created"
    /\ connected = {}

\* if connection.is_closed(): connection.connect()
Startup ==
    /\ lifespan = "created"
    /\ lifespan' = "serving"
    /\ connected' = connected \cup {LifespanHandle}
    /\ UNCHANGED <<schema, tables, nextId, last, pending>>

\* finally: if not connection.is_closed(): connection.close()
\* (reached on a normal shutdown and when the application raises).
Shutdown ==
    /\ lifespan = "serving"
    /\ lifespan' = "stopped"
    /\ connected' = connected \ {LifespanHandle}
    /\ UNCHANGED <<schema, tables, nextId, last, pending>>

\* A request served between startup and shutdown; its storage call opens
\* the handle of its model class when that handle is closed.
Served(op, handler) ==
    /\ lifespan = "serving"
    /\ handler
    /\ connected' = connected \cup {HandleOf(op)}
    /\ UNCHANGED <<pending, lifespan>>

NextLife ==
    \/ Startup
    \/ Shutdown
    \/ Served("get_roles", get_roles)
    \/ \E id \in RoleIds : Served("get_role", get_role(id))
    \/ \E b \in RoleBodies : Served("create_role", create_role(b))
    \/ \E id \in RoleIds, b \in RoleBodies : Served("update_role", update_role(id, b))
    \/ \E id \in RoleIds : Served("delete_role", delete_role(id))
    \/ Served("get_users", get_users)
    \/ Served("get_groups", get_groups)
    \/ \E id \in GroupIds : Served("get_group", get_group(id))
    \/ \E b \in GroupBodies : Served("create_group", create_group(b))
    \/ \E id \in GroupIds, b \in GroupBodies : Served("update_group", update_group(id, b))
    \/ \E id \in GroupIds : Served("delete_group", delete_group(id))
    \/ Served("get_user_groups", get_user_groups)

SpecLife == InitLife /\ [][NextLife]_vars

\* C20: the storage connection is one process-wide handle, opened at
\* startup and closed at shutdown: no handle other than the one the lifespan
\* manager opens is ever open, that handle is open while the application is
\* serving, and once shutdown has completed no handle is left open.
C20_SingleHandleOpenedAndClosed ==
    /\ connected \subseteq {LifespanHandle}
    /\ lifespan = "serving" => LifespanHandle \in connected
    /\ lifespan = "stopped" => connected = {}

(***************************************************************************)
(* The routes.  A route function declares its body parameter as a Pydantic *)
(* model (Roles, User, Groups, UserGroups) whose fields have no default,   *)
(* so FastAPI validates the request body against the model before it calls *)
(* the route function: a body that lacks a declared field is answered with *)
(* a RequestValidationError (422) and the service is never called.         *)
(***************************************************************************)
RolesFields == {"name", "description"}
GroupsFields == {"name", "description"}
UserFields == {"name", "email", "password", "profile_photo", "account_type", "role_id"}
UserGroupsFields == {"user_id", "group_id"}

RequestValidationError ==
    [kind |-> "RequestValidationError", code |-> 422, detail |-> "", rows |-> <<>>]

\* What a lenient model would put in place of a field the body lacks.
Defaults ==
    [name |-> "", description |-> "", email |-> "", password |-> "",
     profile_photo |-> "", account_type |-> "", role_id |-> 0, user_id |-> 0,
     group_id |-> 0]

ValidateWithDefaults(fields, raw) ==
    << [f \in fields |-> IF f \in DOMAIN raw THEN raw[f] ELSE Defaults[f]] >>

\* BaseModel validation of a request body: the model instance with the
\* declared fields, or nothing when a declared field is missing.
Validate(fields, raw) ==
    IF fields \subseteq DOMAIN raw THEN << [f \in fields |-> raw[f]] >> ELSE <<>>

\* The request body b sent without its field f.
Without(b, f) == [k \in DOMAIN b \ {f} |-> b[k]]

\* Request bodies: the complete ones, one body of each entity with one field
\* left out, and the empty JSON object.
RawRoleBodies ==
    RoleBodies \cup {Without([name |-> "guest", description |-> "d2"], f) : f \in RolesFields}
        \cup {<<>>}
RawGroupBodies ==
    GroupBodies \cup {Without([name |-> "g1", description |-> "d1"], f) : f \in GroupsFields}
RawUserBodies ==
    UserBodies \cup {Without(Profile("e1", 1), f) : f \in UserFields}
RawUserGroupBodies ==
    UserGroupBodies \cup {Without([user_id |-> 1, group_id |-> 1], f) : f \in UserGroupsFields}

\* A request to a route with a body parameter: validation, then the route
\* function, which only calls the service with the validated model.
Route(op, id, fields, raw, served) ==
    IF Validate(fields, raw) = <<>>
    THEN /\ last' = Call(op, id, <<raw>>, RequestValidationError)
         /\ UNCHANGED <<schema, tables, nextId, pending, lifespan, connected>>
    ELSE Atomic(served)

roles_route_create_role(raw) ==
    Route("create_role", 0, RolesFields, raw,
          create_role(Validate(RolesFields, raw)[1]))
roles_route_update_role(role_id, raw) ==
    Route("update_role", role_id, RolesFields, raw,
          update_role(role_id, Validate(RolesFields, raw)[1]))
user_route_create_user(raw) ==
    Route("create_user", 0, UserFields, raw,
          create_user(Validate(UserFields, raw)[1]))
user_route_update_user(user_id, raw) ==
    Route("update_user", user_id, UserFields, raw,
          update_user(user_id, Validate(UserFields, raw)[1]))
groups_route_create_group(raw) ==
    Route("create_group", 0, GroupsFields, raw,
          create_group(Validate(GroupsFields, raw)[1]))
groups_route_update_group(group_id, raw) ==
    Route("update_group", group_id, GroupsFields, raw,
          update_group(group_id, Validate(GroupsFields, raw)[1]))
user_groups_route_create_user_group(raw) ==
    Route("create_user_group", 0, UserGroupsFields, raw,
          create_user_group(Validate(UserGroupsFields, raw)[1]))
user_groups_route_update_user_group(user_group_id, raw) ==
    Route("update_user_group", user_group_id, UserGroupsFields, raw,
          update_user_group(user_group_id, Validate(UserGroupsFields, raw)[1]))

NextRoutes ==
    \/ \E raw \in RawRoleBodies : roles_route_create_role(raw)
    \/ \E id \in RoleIds, raw \in RawRoleBodies : roles_route_update_role(id, raw)
    \/ \E raw \in RawUserBodies : user_route_create_user(raw)
    \/ \E id \in UserIds, raw \in RawUserBodies : user_route_update_user(id, raw)
    \/ \E raw \in RawGroupBodies : groups_route_create_group(raw)
    \/ \E id \in GroupIds, raw \in RawGroupBodies : groups_route_update_group(id, raw)
    \/ \E raw \in RawUserGroupBodies : user_groups_route_create_user_group(raw)
    \/ \E id \in UserGroupIds, raw \in RawUserGroupBodies :
           user_groups_route_update_user_group(id, raw)

\* The POST and PUT routes of the four routers, one request at a time.
SpecRoutes == Init /\ [][NextRoutes]_vars

\* The request body lacks one of the fields.
Lacks(fields, raw) == ~(fields \subseteq DOMAIN raw)

\* The step answers with the validation error and leaves the store alone.
RejectedBeforeStorage ==
    /\ last'.result = RequestValidationError
    /\ tables' = tables
    /\ nextId' = nextId

\* C21: a create or update whose body lacks a required field of its entity
\* fails with a validation error before any storage call: the answer is the
\* validation error and no table and no id counter changes.
C21_MissingFieldIsRejectedBeforeStorage ==
    [][ /\ last'.op = "create_role" =>
               \A raw \in RawRoleBodies :
                   (Lacks(RolesFields, raw) /\ roles_route_create_role(raw))
                       => RejectedBeforeStorage
        /\ last'.op = "update_role" =>
               \A raw \in RawRoleBodies :
                   (Lacks(RolesFields, raw) /\ roles_route_update_role(last'.id, raw))
                       => RejectedBeforeStorage
        /\ last'.op = "create_user" =>
               \A raw \in RawUserBodies :
                   (Lacks(UserFields, raw) /\ user_route_create_user(raw))
                       => RejectedBeforeStorage
        /\ last'.op = "update_user" =>
               \A raw \in RawUserBodies :
                   (Lacks(UserFields, raw) /\ user_route_update_user(last'.id, raw))
                       => RejectedBeforeStorage
        /\ last'.op = "create_group" =>
               \A raw \in RawGroupBodies :
                   (Lacks(GroupsFields, raw) /\ groups_route_create_group(raw))
                       => RejectedBeforeStorage
        /\ last'.op = "update_group" =>
               \A raw \in RawGroupBodies :
                   (Lacks(GroupsFields, raw) /\ groups_route_update_group(last'.id, raw))
                       => RejectedBeforeStorage
        /\ last'.op = "create_user_group" =>
               \A raw \in RawUserGroupBodies :
                   (Lacks(UserGroupsFields, raw)
                        /\ user_groups_route_create_user_group(raw))
                       => RejectedBeforeStorage
        /\ last'.op = "update_user_group" =>
               \A raw \in RawUserGroupBodies :
                   (Lacks(UserGroupsFields, raw)
                        /\ user_groups_route_update_user_group(last'.id, raw))
                       => RejectedBeforeStorage ]_vars

\* An update_user of a stored user whose body lacks role_id was answered
\* with the validation error.
C21_Witness ==
    /\ last.op = "update_user"
    /\ last.id \in DOMAIN users
    /\ "role_id" \notin DOMAIN last.input[1]
    /\ DOMAIN last.input[1] # {}
    /\ last.result = RequestValidationError

(***************************************************************************)
(* String lengths.  The Pydantic models declare name and description as    *)
(* plain `str`, and Peewee does not check a CharField's max_length in      *)
(* Python: the bound exists only as the column's VARCHAR width, 50 in the  *)
(* Peewee declaration of database.py, 255 for name (and TEXT for           *)
(* description) in migrations.py.  What MySQL does with a longer value     *)
(* depends on the server's sql_mode, which the repository does not set:    *)
(* with STRICT_TRANS_TABLES the statement fails with error 1406, which     *)
(* Peewee raises as DataError; without it the value is cut to the column's *)
(* width and stored.                                                       *)
(***************************************************************************)
SqlModes == {"strict", "lenient"}

NameMaxLength == IF schema = "peewee" THEN 50 ELSE 255
\* TEXT holds 65,535 bytes.
DescriptionMaxLength == IF schema = "peewee" THEN 50 ELSE 65535

RECURSIVE Repeat(_, _)
Repeat(str, n) == IF n = 0 THEN "" ELSE str \o Repeat(str, n - 1)

\* Role bodies, among them a name of 60 characters, a name of 260 and a
\* description of 60.
SizedRoleBodies ==
    { [name |-> "admin", description |-> "d1"],
      [name |-> "guest", description |-> "d2"],
      [name |-> Repeat("0123456789", 6), description |-> "d1"],
      [name |-> Repeat("0123456789", 26), description |-> "d1"],
      [name |-> "admin", description |-> Repeat("0123456789", 6)] }

Truncate(str, n) == IF Len(str) > n THEN SubSeq(str, 1, n) ELSE str

DataTooLong(role) ==
    \/ Len(role.name) > NameMaxLength
    \/ Len(role.description) > DescriptionMaxLength

\* The column values MySQL stores for the body when it does not refuse it.
StoredRole(role) ==
    [name |-> Truncate(role.name, NameMaxLength),
     description |-> Truncate(role.description, DescriptionMaxLength)]

\* RolesService.create_role with values of any length, on a server in the
\* given sql_mode; the returned instance keeps the values it was built with.
create_role_sized(role, sql_mode) ==
    IF DataTooLong(role) /\ sql_mode = "strict"
    THEN /\ last' = Call("create_role", 0, <<role>>, Uncaught("DataError"))
         /\ UNCHANGED <<schema, tables, nextId>>
    ELSE IF RoleIntegrityError(StoredRole(role), 0)
    THEN /\ last' = Call("create_role", 0, <<role>>,
                HTTPException(500, "An error occurred while creating the role"))
         /\ UNCHANGED <<schema, tables, nextId>>
    ELSE /\ nextId.roles <= MaxRoles
         /\ roles' = Insert(roles, RoleRow(nextId.roles, StoredRole(role)))
         /\ nextId' = [nextId EXCEPT !.roles = @ + 1]
         /\ last' = Call("create_role", 0, <<role>>, Row(RoleRow(nextId.roles, role)))
         /\ UNCHANGED <<schema, users, groups, user_groups>>

\* RolesService.update_role with values of any length.
update_role_sized(role_id, role, sql_mode) ==
    IF role_id \notin DOMAIN roles
    THEN /\ last' = Call("update_role", role_id, <<role>>,
                HTTPException(404, "Role not found"))
         /\ UNCHANGED <<schema, tables, nextId>>
    ELSE IF DataTooLong(role) /\ sql_mode = "strict"
    THEN /\ last' = Call("update_role", role_id, <<role>>, Uncaught("DataError"))
         /\ UNCHANGED <<schema, tables, nextId>>
    ELSE IF RoleIntegrityError(StoredRole(role), role_id)
    THEN /\ last' = Call("update_role", role_id, <<role>>, Uncaught("IntegrityError"))
         /\ UNCHANGED <<schema, tables, nextId>>
    ELSE /\ roles' = Update(roles, RoleRow(role_id, StoredRole(role)))
         /\ last' = Call("update_role", role_id, <<role>>, Row(RoleRow(role_id, role)))
         /\ UNCHANGED <<schema, users, groups, user_groups, nextId>>

NextSized ==
    \/ Atomic(get_roles)
    \/ \E id \in RoleIds : Atomic(get_role(id))
    \/ \E b \in SizedRoleBodies, sql_mode \in SqlModes : Atomic(create_role_sized(b, sql_mode))
    \/ \E id \in RoleIds, b \in SizedRoleBodies, sql_mode \in SqlModes :
           Atomic(update_role_sized(id, b, sql_mode))
    \/ \E id \in RoleIds : Atomic(delete_role(id))

\* RolesService called with names and descriptions of any length.
SpecSized == Init /\ [][NextSized]_vars

\* C22: a create or update that supplies a string longer than the bound of
\* its column fails with a validation error and stores nothing (for an
\* update: of a present row, an absent one being NotFound).
C22_OversizedStringIsRejected ==
    [][ (/\ last'.op \in {"create_role", "update_role"}
         /\ last'.op = "update_role" => last'.id \in DOMAIN roles
         /\ DataTooLong(last'.input[1])) =>
            /\ last'.result = RequestValidationError
            /\ tables' = tables ]_vars

\* The table of the operation's entity after the step.
TableAfter(op) == Pick(op, roles', users', groups', user_groups')

\* C23: no error is discarded or turned into a default value: every call
\* ends in its success value, reflecting a store change that happened, or
\* in a declared error value; a success is never returned when the storage
\* operation affected no row or raised.
C23_NoErrorDiscarded ==
    [][ last'.op # "none" =>
            /\ last'.result.kind \in {"row", "list", "status", "HTTPException"}
            /\ (last'.op \in CreateOps /\ Succeeded(last'.result)) =>
                   LET r == last'.result.rows[1]
                   IN  /\ r.id \notin DOMAIN TableOf(last'.op)
                       /\ r.id \in DOMAIN TableAfter(last'.op)
                       /\ TableAfter(last'.op)[r.id] = r
            /\ (last'.op \in UpdateOps /\ Succeeded(last'.result)) =>
                   /\ last'.id \in DOMAIN TableAfter(last'.op)
                   /\ TableAfter(last'.op)[last'.id] = last'.result.rows[1]
            /\ (last'.op \in DeleteOps /\ Succeeded(last'.result)) =>
                   /\ last'.id \in DOMAIN TableOf(last'.op)
                   /\ last'.id \notin DOMAIN TableAfter(last'.op) ]_vars

\* The AUTO_INCREMENT counter of the operation's entity, before and after
\* the step.
CounterOf(op) == Pick(op, nextId.roles, nextId.users, nextId.groups, nextId.user_groups)
CounterAfter(op) ==
    Pick(op, nextId'.roles, nextId'.users, nextId'.groups, nextId'.user_groups)

\* C24: surrogate ids are never reused.  No counter ever goes back; a
\* successful create returns the value of its entity's counter, which is
\* above every id issued before, and moves the counter past it; and no row
\* is ever born under an id below the counter, so an id issued earlier,
\* whether its row is still stored, deleted or cascaded away, never comes to
\* denote another row.
C24_IdsAreNeverReused ==
    [][ /\ \A e \in DOMAIN nextId : nextId'[e] >= nextId[e]
        /\ \A i \in DOMAIN roles' : i < nextId'.roles
        /\ \A i \in DOMAIN users' : i < nextId'.users
        /\ \A i \in DOMAIN groups' : i < nextId'.groups
        /\ \A i \in DOMAIN user_groups' : i < nextId'.user_groups
        /\ \A i \in Born(roles, roles') : i >= nextId.roles
        /\ \A i \in Born(users, users') : i >= nextId.users
        /\ \A i \in Born(groups, groups') : i >= nextId.groups
        /\ \A i \in Born(user_groups, user_groups') : i >= nextId.user_groups
        /\ (last'.op \in CreateOps /\ Succeeded(last'.result)) =>
               /\ last'.result.rows[1].id = CounterOf(last'.op)
               /\ CounterAfter(last'.op) = CounterOf(last'.op) + 1 ]_vars

\* A create_role succeeded with id 2 after the row with id 1, created
\* earlier, was deleted.
C24_Witness ==
    /\ last.op = "create_role"
    /\ Succeeded(last.result)
    /\ last.result.rows[1].id = 2
    /\ DOMAIN roles = {2}

(***************************************************************************)
(* UserService and UserGroupsService served concurrently, with the roles   *)
(* and groups their rows refer to: update_user and update_user_group in    *)
(* their two storage calls, and the creates and deletes (with their        *)
(* cascades) of all four services between them.                            *)
(***************************************************************************)
\* u_user = UserModel.get(...); u_user.name = ...; ...; u_user.role_id = ...
update_user_fetch(s, user_id, user) ==
    /\ pending[s] = Idle
    /\ IF user_id \notin DOMAIN users
       THEN /\ last' = Call("update_user", user_id, <<user>>,
                   HTTPException(404, "User not found"))
            /\ UNCHANGED pending
       ELSE /\ pending' = [pending EXCEPT ![s] =
                   Fetched("update_user", user_id, user,
                       [users[user_id] EXCEPT
                           !.name = user.name, !.email = user.email,
                           !.password = user.password,
                           !.profile_photo = user.profile_photo,
                           !.account_type = user.account_type,
                           !.role_id = user.role_id])]
            /\ UNCHANGED last
    /\ UNCHANGED <<schema, tables, nextId, lifespan, connected>>

\* A save that writes the name and the email only.
update_user_save_some_fields(s) ==
    /\ pending[s].op = "update_user"
    /\ LET u_user == pending[s].inst[1]
           call(result) == Call("update_user", pending[s].id, pending[s].input, result)
       IN  IF u_user.id \in DOMAIN users /\ UserIntegrityError(u_user, u_user.id)
           THEN /\ last' = call(Uncaught("IntegrityError"))
                /\ UNCHANGED users
           ELSE /\ users' = IF u_user.id \in DOMAIN users
                            THEN [users EXCEPT ![u_user.id].name = u_user.name,
                                               ![u_user.id].email = u_user.email]
                            ELSE users
                /\ last' = call(Row(u_user))
    /\ pending' = [pending EXCEPT ![s] = Idle]
    /\ UNCHANGED <<schema, roles, groups, user_groups, nextId, lifespan, connected>>

\* u_user.save(); return u_user
update_user_save(s) ==
    /\ pending[s].op = "update_user"
    /\ LET u_user == pending[s].inst[1]
           call(result) == Call("update_user", pending[s].id, pending[s].input, result)
       IN  IF u_user.id \in DOMAIN users /\ UserIntegrityError(u_user, u_user.id)
           THEN /\ last' = call(Uncaught("IntegrityError"))
                /\ UNCHANGED users
           ELSE /\ users' = Update(users, u_user)
                /\ last' = call(Row(u_user))
    /\ pending' = [pending EXCEPT ![s] = Idle]
    /\ UNCHANGED <<schema, roles, groups, user_groups, nextId, lifespan, connected>>

\* u_group = UserGroupsModel.get(...); u_group.user_id = ...; u_group.group_id = ...
update_user_group_fetch(s, user_group_id, user_group) ==
    /\ pending[s] = Idle
    /\ IF user_group_id \notin DOMAIN user_groups
       THEN /\ last' = Call("update_user_group", user_group_id, <<user_group>>,
                   HTTPException(404, "User group not found"))
            /\ UNCHANGED pending
       ELSE /\ pending' = [pending EXCEPT ![s] =
                   Fetched("update_user_group", user_group_id, user_group,
                       [user_groups[user_group_id] EXCEPT
                           !.user_id = user_group.user_id,
                           !.group_id = user_group.group_id])]
            /\ UNCHANGED last
    /\ UNCHANGED <<schema, tables, nextId, lifespan, connected>>

\* u_group.save(); return u_group
update_user_group_save(s) ==
    /\ pending[s].op = "update_user_group"
    /\ LET u_group == pending[s].inst[1]
           call(result) ==
               Call("update_user_group", pending[s].id, pending[s].input, result)
       IN  IF /\ u_group.id \in DOMAIN user_groups
              /\ UserGroupIntegrityError(u_group, u_group.id)
           THEN /\ last' = call(Uncaught("IntegrityError"))
                /\ UNCHANGED user_groups
           ELSE /\ user_groups' = Update(user_groups, u_group)
                /\ last' = call(Row(u_group))
    /\ pending' = [pending EXCEPT ![s] = Idle]
    /\ UNCHANGED <<schema, roles, users, groups, nextId, lifespan, connected>>

\* The bodies the concurrent requests carry.
ConcRoleBodies == {[name |-> "admin", description |-> "d1"]}
ConcGroupBodies == {[name |-> "g1", description |-> "d1"]}
ConcUserBodies == {Profile("e1", 1), Profile("e2", 1)}

NextConcUsers ==
    \/ \E b \in ConcRoleBodies : Atomic(create_role(b))
    \/ \E id \in RoleIds : Atomic(delete_role(id))
    \/ \E b \in ConcGroupBodies : Atomic(create_group(b))
    \/ \E id \in GroupIds : Atomic(delete_group(id))
    \/ \E b \in ConcUserBodies : Atomic(create_user(b))
    \/ \E id \in UserIds : Atomic(delete_user(id))
    \/ \E s \in Requests, id \in UserIds, b \in ConcUserBodies : update_user_fetch(s, id, b)
    \/ \E s \in Requests : update_user_save(s)
    \/ \E b \in UserGroupBodies : Atomic(create_user_group(b))
    \/ \E id \in UserGroupIds : Atomic(delete_user_group(id))
    \/ \E s \in Requests, id \in UserGroupIds, b \in UserGroupBodies :
           update_user_group_fetch(s, id, b)
    \/ \E s \in Requests : update_user_group_save(s)

SpecConcUsers == Init /\ [][NextConcUsers]_vars

\* A step of an update: its fetch (a miss included) or its save.
UpdateStep == last'.op \in UpdateOps \/ pending' # pending

\* Every row of table t, except the row that update operation op of this
\* step targets, is stored in tn with the same values.
OtherRowsKept(t, tn, op) ==
    \A i \in DOMAIN t :
        (last'.op = op /\ last'.id = i) \/ (i \in DOMAIN tn /\ tn[i] = t[i])

\* C25: update never creates or removes a row.  Across every step of an
\* update, answered with a row or with an error, and also when a concurrent
\* delete removed the target between the update's fetch and its save, each
\* table holds the same ids as before, no id is issued, and every row other
\* than the targeted one keeps all its values.
C25_UpdateKeepsTheRowSet ==
    [][ UpdateStep =>
            /\ DOMAIN roles' = DOMAIN roles
            /\ DOMAIN users' = DOMAIN users
            /\ DOMAIN groups' = DOMAIN groups
            /\ DOMAIN user_groups' = DOMAIN user_groups
            /\ nextId' = nextId
            /\ OtherRowsKept(roles, roles', "update_role")
            /\ OtherRowsKept(users, users', "update_user")
            /\ OtherRowsKept(groups, groups', "update_group")
            /\ OtherRowsKept(user_groups, user_groups', "update_user_group")
       ]_vars

\* An update_user returned its instance although the user was deleted after
\* the fetch, while another user is stored.
C25_Witness ==
    /\ last.op = "update_user"
    /\ last.result.kind = "row"
    /\ last.id \notin DOMAIN users
    /\ users # <<>>

\* C26: a create that fails (IntegrityError answered with 500, DoesNotExist
\* answered with 400 in create_user) leaves every table exactly as it was:
\* no partial row is inserted and no stored row is changed.
C26_FailedCreateChangesNothing ==
    [][ (last'.op \in CreateOps /\ ~Succeeded(last'.result)) => tables' = tables ]_vars

\* A create_user was refused with 500 while users and roles are stored.
C26_Witness ==
    /\ last.op = "create_user"
    /\ IntegrityFailure(last.result)
    /\ users # <<>>
    /\ roles # <<>>

\* The users whose role_id is R.
UsersWithRole(R) == {u \in DOMAIN users : users[u].role_id = R}

\* C27: the cascade is transitive along Role -> User -> UserGroup.  After a
\* delete_role(R) that succeeds, no stored UserGroup references a User whose
\* role_id was R (and no such User is stored), while every Group, every
\* User with another role and every UserGroup of such a User is stored
\* unchanged, and nothing is added.
C27_CascadeIsTransitive ==
    [][ (last'.op = "delete_role" /\ Succeeded(last'.result)) =>
            LET U == UsersWithRole(last'.id)
            IN  /\ \A g \in DOMAIN user_groups' : user_groups'[g].user_id \notin U
                /\ DOMAIN users' = DOMAIN users \ U
                /\ \A u \in DOMAIN users' : users'[u] = users[u]
                /\ DOMAIN user_groups' =
                       {g \in DOMAIN user_groups : user_groups[g].user_id \notin U}
                /\ \A g \in DOMAIN user_groups' : user_groups'[g] = user_groups[g]
                /\ groups' = groups ]_vars

\* delete_role(1) succeeded and of two users with a membership each, the
\* one with role 2 and its membership are what is stored.
C27_Witness ==
    /\ last.op = "delete_role" /\ last.id = 1 /\ Succeeded(last.result)
    /\ DOMAIN roles = {2}
    /\ DOMAIN users = {2} /\ users[2].role_id = 2
    /\ DOMAIN user_groups = {2} /\ user_groups[2].user_id = 2
    /\ nextId.users = 3 /\ nextId.user_groups = 3
    /\ groups # <<>>

\* C28: when two updates with full records f and g run concurrently on the
\* same present row, the row ends with all the values of f or all those of
\* g in every interleaving of their fetch and save steps.  Each save that
\* finds its row stores the whole record of its own call, so that every
\* stored user is, field for field, one of the records that were sent, never
\* a mixture of two.
C28_ConcurrentUpdatesDoNotMix ==
    [][ /\ (last'.op = "update_user" /\ last'.result.kind = "row"
                /\ last'.id \in DOMAIN users) =>
               /\ users'[last'.id] = last'.result.rows[1]
               /\ FieldsOf(users'[last'.id]) = last'.input[1]
        /\ \A i \in DOMAIN users' : FieldsOf(users'[i]) \in ConcUserBodies ]_vars

\* An update_user has stored its record in a row for which another
\* update_user with a different record has fetched and not yet saved.
C28_Witness ==
    /\ last.op = "update_user"
    /\ last.result.kind = "row"
    /\ last.id \in DOMAIN users
    /\ users[last.id] = last.result.rows[1]
    /\ \E s \in Requests :
           /\ pending[s].op = "update_user"
           /\ pending[s].id = last.id
           /\ pending[s].input # last.input

\* C29: of two concurrent create_role calls with the same name, or two
\* concurrent create_user calls with the same email, at most one succeeds
\* and the other fails with an error: a create whose name (email) is stored
\* already, by whichever request got there first, is answered with an error
\* and adds no row.
C29_ConcurrentDuplicateCreateFails ==
    [][ /\ (/\ last'.op = "create_role"
            /\ \E i \in DOMAIN roles : roles[i].name = last'.input[1].name) =>
               (~Succeeded(last'.result) /\ roles' = roles)
        /\ (/\ last'.op = "create_user"
            /\ \E i \in DOMAIN users : users[i].email = last'.input[1].email) =>
               (~Succeeded(last'.result) /\ users' = users) ]_vars


====
